---- MODULE Spec2Model ----
(***************************************************************************)
(* A model of the News-Dashboard front end: the filter passes of NewsFeed  *)
(* and AnalystQuotes, the date window of ConflictCharts, and the filter    *)
(* state shared by Dashboard and SearchFilter.                             *)
(*                                                                         *)
(* JavaScript values are modelled as follows.  A string is a sequence of   *)
(* one-character strings over Chars.  A key that an object does not have   *)
(* is not in the item's keys and reads as undefined, and the value null is *)
(* Null.  A priority score is an integer: the code only compares and       *)
(* subtracts scores.  A date is a day number, and a date that may be null  *)
(* or absent is the set of its values: {} or {d}.                          *)
(***************************************************************************)
EXTENDS Integers, Sequences, FiniteSets

VARIABLES
    mockArticles,           \* NewsFeed.js: the article candidates
    mockAnalystCommentary,  \* NewsFeed.js: the analyst commentary candidates
    mockAnalystQuotes,      \* AnalystQuotes: the quote candidates
    panelFilters,           \* the filters prop the feed panels were rendered with
    limit,                  \* the limit prop the feed panels were rendered with
    articles,               \* NewsFeed: useState([])
    quotes,                 \* AnalystQuotes: useState([])
    effects,                \* the effects of the last commit that have not run yet
    crashed,                \* an effect threw: React has unmounted the tree
    mockTimeSeriesData,     \* ConflictCharts.js: the date-ordered series
    timeSeriesData,         \* ConflictCharts: useState(null)
    priorityScoreData,      \* ConflictCharts: useState(null)
    mockHotspots,           \* GeographicMap: the hotspot candidates
    hotspots,               \* GeographicMap: useState([])
    filters,                \* Dashboard: useState({category: 'all', ...})
    tabValue,               \* Dashboard: useState(0)
    searchFilter,           \* SearchFilter: its seven useState values
    onFilterChange,         \* the handleFilterChange of the last Dashboard render
    dashboardStale,         \* Dashboard holds a state update it has not rendered
    updates                 \* the setFilters calls since the last control change

feedVars == <<mockArticles, mockAnalystCommentary, mockAnalystQuotes,
              panelFilters, limit, articles, quotes, effects, crashed>>

chartVars == <<mockTimeSeriesData, timeSeriesData, priorityScoreData>>

mapVars == <<mockHotspots, hotspots>>

uiVars == <<filters, tabValue, searchFilter, onFilterChange, dashboardStale, updates>>

vars == <<feedVars, chartVars, mapVars, uiVars>>

----------------------------------------------------------------------------
(* Bounds of the model *)

\* the longest candidate collection of the ranking inputs
MaxItems == 2

\* the longest title, content and search query of the search inputs
MaxTextLen == 2

\* the longest time series: longer than a year of daily samples
MaxSeriesLen == 367

\* the setFilters calls counted after a control change; further calls are not
\* counted
MaxUpdates == 2

----------------------------------------------------------------------------
(* JavaScript values *)

Undefined == "undefined"

Null == "null"

Chars == {"a", "A", "b"}

\* String.prototype.toLowerCase on one character
LowerChar(c) == IF c = "A" THEN "a" ELSE c

\* String.prototype.toLowerCase
ToLowerCase(s) == [i \in 1..Len(s) |-> LowerChar(s[i])]

\* String.prototype.includes: q occurs in s as a contiguous substring
Includes(s, q) ==
    \E i \in 0..(Len(s) - Len(q)) : SubSeq(s, i + 1, i + Len(q)) = q

\* the strings over Chars of length at most n
Strings(n) == UNION {[1..k -> Chars] : k \in 0..n}

\* the elements of a sequence
Range(s) == {s[i] : i \in 1..Len(s)}

\* Array.prototype.filter with the predicate given as the set of items kept
FilterSeq(s, keep) ==
    LET F[i \in 0..Len(s)] ==
            IF i = 0 THEN <<>>
            ELSE IF s[i] \in keep THEN Append(F[i - 1], s[i]) ELSE F[i - 1]
    IN F[Len(s)]

\* slice with the end index taken as inclusive
SliceInclusive(s, n) == SubSeq(s, 1, IF n + 1 < Len(s) THEN n + 1 ELSE Len(s))

\* Array.prototype.slice(0, n): a negative n counts from the end
Slice0(s, n) ==
    SubSeq(s, 1, IF n < 0 THEN Len(s) + n ELSE IF n < Len(s) THEN n ELSE Len(s))

\* Array.prototype.slice(from, to) for indices from 0 that are not negative
Slice(s, from, to) == SubSeq(s, from + 1, IF to < Len(s) THEN to ELSE Len(s))

\* Math.max
Max(a, b) == IF a > b THEN a ELSE b

Min(a, b) == IF a < b THEN a ELSE b

Categories == {"internal_conflict", "external_conflict", "economic_indicators"}

CategoryOptions == {"all"} \cup Categories

\* item.k is not undefined: the item has the key k
Has(item, k) == k \in item.keys

\* a value that is truthy in a condition (categories and data types)
Truthy(v) == v \notin {Undefined, Null, ""}

----------------------------------------------------------------------------
(* The ranking shared by NewsFeed and AnalystQuotes *)

\* the comparator with its operands exchanged: ascending scores
CompareScoreAscending(a, b) ==
    IF Has(a, "priority_score") /\ Has(b, "priority_score")
    THEN a.priority_score - b.priority_score
    ELSE 0

\* the comparator (a, b) => b.priority_score - a.priority_score; a NaN result
\* (a missing score) counts as +0 in Array.prototype.sort
CompareScore(a, b) ==
    IF Has(a, "priority_score") /\ Has(b, "priority_score")
    THEN b.priority_score - a.priority_score
    ELSE 0

\* the comparator is a consistent comparison function for the items of s
ConsistentComparator(s) ==
    \A a, b, c \in Range(s) :
        /\ (CompareScore(a, b) = 0 /\ CompareScore(b, c) = 0) => CompareScore(a, c) = 0
        /\ (CompareScore(a, b) < 0 /\ CompareScore(b, c) < 0) => CompareScore(a, c) < 0
        /\ (CompareScore(a, b) > 0 /\ CompareScore(b, c) > 0) => CompareScore(a, c) > 0

\* x put into the sorted sequence s before the items that compare equal to it:
\* a sort that is not stable
InsertSortedBeforeTies(s, x) ==
    LET after == {i \in 1..Len(s) : CompareScore(s[i], x) >= 0}
        at == IF after = {} THEN Len(s) + 1
              ELSE CHOOSE i \in after : \A j \in after : i <= j
    IN SubSeq(s, 1, at - 1) \o <<x>> \o SubSeq(s, at, Len(s))

\* x put into the sorted sequence s behind every item that does not sort after it
InsertSorted(s, x) ==
    LET after == {i \in 1..Len(s) : CompareScore(s[i], x) > 0}
        at == IF after = {} THEN Len(s) + 1
              ELSE CHOOSE i \in after : \A j \in after : i <= j
    IN SubSeq(s, 1, at - 1) \o <<x>> \o SubSeq(s, at, Len(s))

\* the stable sort of s by the comparator
StableSort(s) ==
    LET S[i \in 0..Len(s)] == IF i = 0 THEN <<>> ELSE InsertSorted(S[i - 1], s[i])
    IN S[Len(s)]

\* the rearrangements of s
Rearrangements(s) ==
    {[i \in 1..Len(s) |-> s[p[i]]] :
        p \in {q \in [1..Len(s) -> 1..Len(s)] : \A i, j \in 1..Len(s) : q[i] = q[j] => i = j}}

\* what Array.prototype.sort may leave in the array: the stable order under a
\* consistent comparator, an implementation-defined order otherwise
SortByPriority(s) ==
    IF ConsistentComparator(s) THEN {StableSort(s)} ELSE Rearrangements(s)

\* the array an assignment without the spread holds: the named array itself
SpreadAlias(name) == name

\* the array [...array] holds: a new one, named "copy" here
SpreadCopy(name) == "copy"

----------------------------------------------------------------------------
(* NewsFeed: the filter pass of its effect *)

\* the collection the pass copies
NewsFeedSource(criteria) ==
    IF criteria.dataType = "analyst" THEN mockAnalystCommentary ELSE mockArticles

\* the category predicate without its secondary_category arm
NewsFeedCategoryMatchPrimaryOnly(item, category) ==
    item.primary_category = category

\* item => item.primary_category === category || item.secondary_category === category
NewsFeedCategoryMatch(item, category) ==
    item.primary_category = category \/ item.secondary_category = category

\* the category step without the exemption of 'all'
NewsFeedCategoryFilterNoAll(criteria, data) ==
    IF Truthy(criteria.category)
    THEN FilterSeq(data, {item \in Range(data) :
                             item.primary_category = criteria.category
                                 \/ item.secondary_category = criteria.category})
    ELSE data

\* the category step
NewsFeedCategoryFilter(criteria, data) ==
    IF Truthy(criteria.category) /\ criteria.category # "all"
    THEN FilterSeq(data, {item \in Range(data) : NewsFeedCategoryMatch(item, criteria.category)})
    ELSE data

\* the search predicate with the texts compared as they are written
NewsFeedSearchMatchCaseSensitive(item, query) ==
    \/ Has(item, "title") /\ Includes(item.title, query)
    \/ Has(item, "content") /\ Includes(item.content, query)

\* the search predicate reading content only for an item without a title
NewsFeedSearchMatchFallback(item, query) ==
    IF Has(item, "title")
    THEN Includes(ToLowerCase(item.title), query)
    ELSE Has(item, "content") /\ Includes(ToLowerCase(item.content), query)

\* item => item.title?.toLowerCase().includes(query) ||
\*         item.content?.toLowerCase().includes(query)
NewsFeedSearchMatch(item, query) ==
    \/ Has(item, "title") /\ Includes(ToLowerCase(item.title), query)
    \/ Has(item, "content") /\ Includes(ToLowerCase(item.content), query)

\* the search step
NewsFeedSearchFilter(criteria, data) ==
    IF criteria.searchQuery # <<>>
    THEN FilterSeq(data, {item \in Range(data) :
                             NewsFeedSearchMatch(item, ToLowerCase(criteria.searchQuery))})
    ELSE data

\* filteredData as the sort finds it, the pass applied to items
NewsFeedFiltered(criteria, items) ==
    NewsFeedSearchFilter(criteria, NewsFeedCategoryFilter(criteria, items))

\* the array the sort rearranges in place: the one a filter step returned
\* ("filtered"), or with no filter step the one the pass started from
NewsFeedSortedArray(criteria) ==
    IF \/ Truthy(criteria.category) /\ criteria.category # "all"
       \/ criteria.searchQuery # <<>>
    THEN "filtered"
    ELSE SpreadCopy(IF criteria.dataType = "analyst"
                    THEN "mockAnalystCommentary" ELSE "mockArticles")

\* the lists the pass over items may hand to setArticles
NewsFeedApply(criteria, items, n) ==
    {Slice0(sorted, n) : sorted \in SortByPriority(NewsFeedFiltered(criteria, items))}

\* the lists the pass may hand to setArticles
NewsFeedPass(criteria, n) == NewsFeedApply(criteria, NewsFeedSource(criteria), n)

\* what NewsFeed renders for its list: articles.length === 0 ? message : list
NewsFeedRender(list) == IF Len(list) = 0 THEN "no-results" ELSE "list"

\* getCategoryColor of NewsFeed: the colour of a category chip
NewsFeedGetCategoryColor(category) ==
    CASE category = "internal_conflict" -> "#f44336"
      [] category = "external_conflict" -> "#2196f3"
      [] category = "economic_indicators" -> "#4caf50"
      [] OTHER -> "#9e9e9e"

----------------------------------------------------------------------------
(* AnalystQuotes: the filter pass of its effect *)

\* quote => quote.primary_category === category
AnalystQuotesCategoryMatch(quote, category) ==
    quote.primary_category = category

\* the category step
AnalystQuotesCategoryFilter(criteria, data) ==
    IF Truthy(criteria.category) /\ criteria.category # "all"
    THEN FilterSeq(data, {quote \in Range(data) :
                             AnalystQuotesCategoryMatch(quote, criteria.category)})
    ELSE data

\* quote => quote.content.toLowerCase().includes(query) ||
\*          quote.analyst_name.toLowerCase().includes(query) ||
\*          quote.organization.toLowerCase().includes(query)
AnalystQuotesSearchMatch(quote, query) ==
    \/ Includes(ToLowerCase(quote.content), query)
    \/ Includes(ToLowerCase(quote.analyst_name), query)
    \/ Includes(ToLowerCase(quote.organization), query)

\* the predicate reads toLowerCase of undefined: a TypeError
AnalystQuotesSearchThrows(quote, query) ==
    \/ ~Has(quote, "content")
    \/ /\ ~Includes(ToLowerCase(quote.content), query)
       /\ \/ ~Has(quote, "analyst_name")
          \/ /\ ~Includes(ToLowerCase(quote.analyst_name), query)
             /\ ~Has(quote, "organization")

\* the search step throws on some quote
AnalystQuotesThrows(criteria) ==
    /\ criteria.searchQuery # <<>>
    /\ \E quote \in Range(AnalystQuotesCategoryFilter(criteria, mockAnalystQuotes)) :
           AnalystQuotesSearchThrows(quote, ToLowerCase(criteria.searchQuery))

\* the search step
AnalystQuotesSearchFilter(criteria, data) ==
    IF criteria.searchQuery # <<>>
    THEN FilterSeq(data, {quote \in Range(data) :
                             AnalystQuotesSearchMatch(quote, ToLowerCase(criteria.searchQuery))})
    ELSE data

\* filteredQuotes as the sort finds it, the pass applied to items
AnalystQuotesFiltered(criteria, items) ==
    AnalystQuotesSearchFilter(criteria, AnalystQuotesCategoryFilter(criteria, items))

\* the array the sort rearranges in place
AnalystQuotesSortedArray(criteria) ==
    IF \/ Truthy(criteria.category) /\ criteria.category # "all"
       \/ criteria.searchQuery # <<>>
    THEN "filtered"
    ELSE SpreadCopy("mockAnalystQuotes")

\* the lists the pass over items may hand to setQuotes
AnalystQuotesApply(criteria, items, n) ==
    {Slice0(sorted, n) : sorted \in SortByPriority(AnalystQuotesFiltered(criteria, items))}

\* the lists the pass may hand to setQuotes
AnalystQuotesPass(criteria, n) == AnalystQuotesApply(criteria, mockAnalystQuotes, n)

\* what AnalystQuotes renders for its list: quotes.length === 0 ? message : list
AnalystQuotesRender(list) == IF Len(list) = 0 THEN "no-results" ELSE "list"

\* getCategoryColor of AnalystQuotes: the colour of a category chip
AnalystQuotesGetCategoryColor(category) ==
    CASE category = "internal_conflict" -> "#f44336"
      [] category = "external_conflict" -> "#2196f3"
      [] category = "economic_indicators" -> "#4caf50"
      [] OTHER -> "#9e9e9e"

----------------------------------------------------------------------------
(* ConflictCharts: the chart data its effect builds *)

\* the priority score data: the dates as day numbers from 2023-05-15, day 1
mockPriorityScoreData ==
    [dates |-> <<1, 8, 15, 22, 29, 32>>,
     internal_conflict |-> <<65, 68, 72, 75, 78, 80>>,
     external_conflict |-> <<70, 72, 75, 78, 82, 85>>,
     economic_indicators |-> <<60, 65, 70, 72, 75, 78>>]

\* d.toLocaleDateString('en-US', {month: 'short', day: 'numeric'}), read in the
\* time zone UTC: the day of the year, the year itself dropped
FormatLabel(date) == ((date - 1) % 365) + 1

\* the index the window starts at, before it is clamped
WindowStart(dateRange, endIndex) ==
    IF dateRange = "1d" THEN endIndex - 1
    ELSE IF dateRange = "7d" THEN endIndex - 7
    ELSE IF dateRange = "30d" THEN endIndex - 30
    ELSE 0

\* the time series with the values cut to the window and the dates left whole
FilteredTimeSeriesDatesUncut(criteria, series) ==
    LET endIndex == Len(series.dates) - 1
        startIndex == Max(0, WindowStart(criteria.dateRange, endIndex))
    IN [dates |-> series.dates,
        internal_conflict |-> Slice(series.internal_conflict, startIndex, endIndex + 1),
        external_conflict |-> Slice(series.external_conflict, startIndex, endIndex + 1),
        economic_indicators |-> Slice(series.economic_indicators, startIndex, endIndex + 1)]

\* the time series cut to the window of the date range
FilteredTimeSeries(criteria, series) ==
    LET endIndex == Len(series.dates) - 1
        startIndex == Max(0, WindowStart(criteria.dateRange, endIndex))
    IN [dates |-> Slice(series.dates, startIndex, endIndex + 1),
        internal_conflict |-> Slice(series.internal_conflict, startIndex, endIndex + 1),
        external_conflict |-> Slice(series.external_conflict, startIndex, endIndex + 1),
        economic_indicators |-> Slice(series.economic_indicators, startIndex, endIndex + 1)]

\* one dataset of a chart
Dataset(label, data, color) == [label |-> label, data |-> data, color |-> color]

\* the datasets with the 'all' arm of the three conditions left out
DatasetsExactOnly(criteria, series, colors) ==
    (IF criteria.category = "internal_conflict"
     THEN <<Dataset("Internal Conflict", series.internal_conflict, colors[1])>>
     ELSE <<>>)
    \o (IF criteria.category = "external_conflict"
        THEN <<Dataset("External Conflict", series.external_conflict, colors[2])>>
        ELSE <<>>)
    \o (IF criteria.category = "economic_indicators"
        THEN <<Dataset("Economic Indicators", series.economic_indicators, colors[3])>>
        ELSE <<>>)

\* the datasets pushed for the category of the filters, in the order of the code
Datasets(criteria, series, colors) ==
    (IF criteria.category = "all" \/ criteria.category = "internal_conflict"
     THEN <<Dataset("Internal Conflict", series.internal_conflict, colors[1])>>
     ELSE <<>>)
    \o (IF criteria.category = "all" \/ criteria.category = "external_conflict"
        THEN <<Dataset("External Conflict", series.external_conflict, colors[2])>>
        ELSE <<>>)
    \o (IF criteria.category = "all" \/ criteria.category = "economic_indicators"
        THEN <<Dataset("Economic Indicators", series.economic_indicators, colors[3])>>
        ELSE <<>>)

\* timeSeriesChartData
TimeSeriesChartData(criteria) ==
    LET filteredTimeSeries == FilteredTimeSeries(criteria, mockTimeSeriesData)
    IN [labels |-> [i \in 1..Len(filteredTimeSeries.dates) |->
                       FormatLabel(filteredTimeSeries.dates[i])],
        datasets |-> Datasets(criteria, filteredTimeSeries,
                              <<"#f44336", "#2196f3", "#4caf50">>)]

\* the priority chart as it would be with the window of the date range applied
PriorityScoreChartDataWindowed(criteria) ==
    LET filteredPriorityScores == FilteredTimeSeries(criteria, mockPriorityScoreData)
    IN [labels |-> [i \in 1..Len(filteredPriorityScores.dates) |->
                       FormatLabel(filteredPriorityScores.dates[i])],
        datasets |-> Datasets(criteria, filteredPriorityScores,
                              <<"rgba(244, 67, 54, 0.7)", "rgba(33, 150, 243, 0.7)",
                                "rgba(76, 175, 80, 0.7)">>)]

\* priorityScoreChartData
PriorityScoreChartData(criteria) ==
    [labels |-> [i \in 1..Len(mockPriorityScoreData.dates) |->
                    FormatLabel(mockPriorityScoreData.dates[i])],
     datasets |-> Datasets(criteria, mockPriorityScoreData,
                           <<"rgba(244, 67, 54, 0.7)", "rgba(33, 150, 243, 0.7)",
                             "rgba(76, 175, 80, 0.7)">>)]

----------------------------------------------------------------------------
(* GeographicMap: the filter pass of its effect *)

\* the distance a hotspot must stay under, in degrees
Threshold == 50

\* the reference coordinates <<longitude, latitude>> of the regions, in whole
\* degrees; 'global' and any other region have none
regionCoordinates ==
    [us |-> <<-99, 40>>, europe |-> <<10, 51>>, asia |-> <<101, 34>>,
     middle_east |-> <<53, 29>>, latin_america |-> <<-79, -21>>]

\* the distance test with the threshold itself let through
WithinThresholdInclusive(hotspotLong, hotspotLat, regionLong, regionLat) ==
    (hotspotLong - regionLong) * (hotspotLong - regionLong)
        + (hotspotLat - regionLat) * (hotspotLat - regionLat) <= Threshold * Threshold

\* Math.sqrt(Math.pow(hotspotLong - regionLong, 2) +
\*           Math.pow(hotspotLat - regionLat, 2)) < 50, the two sides squared
WithinThreshold(hotspotLong, hotspotLat, regionLong, regionLat) ==
    (hotspotLong - regionLong) * (hotspotLong - regionLong)
        + (hotspotLat - regionLat) * (hotspotLat - regionLat) < Threshold * Threshold

\* the category step
GeographicMapCategoryFilter(criteria, data) ==
    IF Truthy(criteria.category) /\ criteria.category # "all"
    THEN FilterSeq(data, {hotspot \in Range(data) : hotspot.category = criteria.category})
    ELSE data

\* the region step
GeographicMapRegionFilter(criteria, data) ==
    IF Truthy(criteria.region) /\ criteria.region # "global"
           /\ criteria.region \in DOMAIN regionCoordinates
    THEN LET center == regionCoordinates[criteria.region]
         IN FilterSeq(data, {hotspot \in Range(data) :
                                WithinThreshold(hotspot.coordinates[1], hotspot.coordinates[2],
                                                center[1], center[2])})
    ELSE data

\* the list the pass hands to setHotspots
GeographicMapPass(criteria) ==
    GeographicMapRegionFilter(criteria, GeographicMapCategoryFilter(criteria, mockHotspots))

\* the marker colours with red and blue exchanged
getMarkerColorSwapped(category) ==
    CASE category = "internal_conflict" -> "#2196f3"
      [] category = "external_conflict" -> "#f44336"
      [] category = "economic_indicators" -> "#4caf50"
      [] OTHER -> "#9e9e9e"

\* getMarkerColor: the colour of a hotspot marker
getMarkerColor(category) ==
    CASE category = "internal_conflict" -> "#f44336"
      [] category = "external_conflict" -> "#2196f3"
      [] category = "economic_indicators" -> "#4caf50"
      [] OTHER -> "#9e9e9e"

----------------------------------------------------------------------------
(* Dashboard and SearchFilter *)

\* the initial filters without the region key
InitialFiltersNoRegion ==
    [category |-> "all", dateRange |-> "7d", searchQuery |-> <<>>, region |-> Undefined,
     startDate |-> {}, endDate |-> {}, dataType |-> Undefined]

\* the initial filters of Dashboard; a key the object lacks holds Undefined, a
\* date key it lacks {}
InitialFilters ==
    [category |-> "all", dateRange |-> "7d", searchQuery |-> <<>>, region |-> "global",
     startDate |-> {}, endDate |-> {}, dataType |-> Undefined]

\* the initial state of SearchFilter
InitialSearchFilter ==
    [category |-> "all", dateRange |-> "7d", searchQuery |-> <<>>, region |-> "global",
     startDate |-> {}, endDate |-> {}, showCustomDates |-> FALSE]

\* the object SearchFilter passes to onFilterChange, from its effect and from
\* handleSearch alike: the four selections, and the two dates when the range is
\* custom and both are set
SearchFilterFilters(sf) ==
    LET custom == sf.dateRange = "custom" /\ sf.startDate # {} /\ sf.endDate # {}
    IN [category |-> sf.category, dateRange |-> sf.dateRange,
        searchQuery |-> sf.searchQuery, region |-> sf.region,
        startDate |-> IF custom THEN sf.startDate ELSE {},
        endDate |-> IF custom THEN sf.endDate ELSE {},
        dataType |-> Undefined]

\* the object replaced instead of spread over: the dates are those of new alone
SpreadDatesReplaced(old, new) ==
    [category |-> IF new.category = Undefined THEN old.category ELSE new.category,
     dateRange |-> IF new.dateRange = Undefined THEN old.dateRange ELSE new.dateRange,
     searchQuery |-> new.searchQuery,
     region |-> IF new.region = Undefined THEN old.region ELSE new.region,
     startDate |-> new.startDate,
     endDate |-> new.endDate,
     dataType |-> IF new.dataType = Undefined THEN old.dataType ELSE new.dataType]

\* {...old, ...new}: the keys of new win, the keys it lacks stay as in old
Spread(old, new) ==
    [category |-> IF new.category = Undefined THEN old.category ELSE new.category,
     dateRange |-> IF new.dateRange = Undefined THEN old.dateRange ELSE new.dateRange,
     searchQuery |-> new.searchQuery,
     region |-> IF new.region = Undefined THEN old.region ELSE new.region,
     startDate |-> IF new.startDate = {} THEN old.startDate ELSE new.startDate,
     endDate |-> IF new.endDate = {} THEN old.endDate ELSE new.endDate,
     dataType |-> IF new.dataType = Undefined THEN old.dataType ELSE new.dataType]

\* handleFilterChange as the render that made it closed over filters:
\* setFilters({ ...filters, ...newFilters })
HandleFilterChange(handler, newFilters) ==
    /\ filters' = Spread(handler.filters, newFilters)
    /\ dashboardStale' = TRUE

\* a panel with the filters prop it is rendered with
Panel(name, criteria) == [panel |-> name, filters |-> criteria]

\* the panels of a tab with the filters of the render passed on as they are
TabPanelsNoOverride(tab, f) ==
    IF tab = 0 THEN <<Panel("ConflictCharts", f), Panel("AnalystQuotes", f),
                      Panel("NewsFeed", f), Panel("GeographicMap", f)>>
    ELSE IF tab = 1 THEN <<Panel("ConflictCharts", f), Panel("EconomicIndicators", f),
                           Panel("NewsFeed", f)>>
    ELSE IF tab = 2 THEN <<Panel("ConflictCharts", f), Panel("GeographicMap", f),
                           Panel("NewsFeed", f)>>
    ELSE IF tab = 3 THEN <<Panel("EconomicIndicators", f), Panel("AnalystQuotes", f),
                           Panel("NewsFeed", f)>>
    ELSE <<Panel("AnalystQuotes", f), Panel("ConflictCharts", f), Panel("NewsFeed", f)>>

\* the panels Dashboard renders in the TabPanel of index tab, each with its
\* filters prop: {...filters, category: ...} on the three category tabs,
\* {...filters, dataType: 'analyst'} on Analyst Insights
TabPanels(tab, f) ==
    IF tab = 0 THEN
        <<Panel("ConflictCharts", f), Panel("AnalystQuotes", f),
          Panel("NewsFeed", f), Panel("GeographicMap", f)>>
    ELSE IF tab = 1 THEN
        <<Panel("ConflictCharts", [f EXCEPT !.category = "internal_conflict"]),
          Panel("EconomicIndicators", [f EXCEPT !.category = "internal_conflict"]),
          Panel("NewsFeed", [f EXCEPT !.category = "internal_conflict"])>>
    ELSE IF tab = 2 THEN
        <<Panel("ConflictCharts", [f EXCEPT !.category = "external_conflict"]),
          Panel("GeographicMap", [f EXCEPT !.category = "external_conflict"]),
          Panel("NewsFeed", [f EXCEPT !.category = "external_conflict"])>>
    ELSE IF tab = 3 THEN
        <<Panel("EconomicIndicators", [f EXCEPT !.category = "economic_indicators"]),
          Panel("AnalystQuotes", [f EXCEPT !.category = "economic_indicators"]),
          Panel("NewsFeed", [f EXCEPT !.category = "economic_indicators"])>>
    ELSE
        <<Panel("AnalystQuotes", f),
          Panel("ConflictCharts", [f EXCEPT !.dataType = "analyst"]),
          Panel("NewsFeed", [f EXCEPT !.dataType = "analyst"])>>

----------------------------------------------------------------------------
(* The inputs of the feed panels *)

TextKeys == {"title", "content", "analyst_name", "organization"}

\* an item of a candidate collection; a text key the item lacks holds <<>>, a
\* score it lacks 0, a category it lacks Undefined.  Its
\* timestamp (published_date of an article, date of an analyst entry) is the
\* day it carries, counted from the day the pass runs: 0 is that day, -3 the
\* day three days before
Item(id, keys, title, content, name, org, score, primary, secondary) ==
    [id |-> id, keys |-> keys, title |-> title, content |-> content,
     analyst_name |-> name, organization |-> org, priority_score |-> score,
     primary_category |-> primary, secondary_category |-> secondary, date |-> 0]

\* the criteria a panel is rendered with
Criteria(category, query, dataType) ==
    [category |-> category, dateRange |-> "7d", searchQuery |-> query,
     region |-> "global", startDate |-> {}, endDate |-> {}, dataType |-> dataType]

\* a date-ordered series of n daily samples: day i at index i, the values of
\* each category different at every index
TimeSeries(n) ==
    [dates |-> [i \in 1..n |-> i],
     internal_conflict |-> [i \in 1..n |-> 3 * i],
     external_conflict |-> [i \in 1..n |-> 3 * i + 1],
     economic_indicators |-> [i \in 1..n |-> 3 * i + 2]]

DateRangeOptions == {"1d", "7d", "30d", "90d", "1y", "custom"}

RegionOptions == {"global", "us", "europe", "asia", "middle_east", "latin_america"}

\* the dates picked for a custom range
PickerDates == {2, 3}

\* the criteria ConflictCharts is rendered with: every category and date range,
\* a custom range with the dates picked
ChartCriteria ==
    {[Criteria(c, <<>>, Undefined) EXCEPT !.dateRange = r] :
        c \in CategoryOptions, r \in DateRangeOptions \ {"custom"}}
    \cup {[Criteria(c, <<>>, Undefined) EXCEPT !.dateRange = "custom",
                                              !.startDate = {from}, !.endDate = {to}] :
             c \in CategoryOptions, from \in PickerDates, to \in PickerDates}

\* ranking inputs: every category pairing and two scores
RankItems ==
    {Item(0, TextKeys \cup {"priority_score"}, <<>>, <<>>, <<>>, <<>>,
          score, primary, secondary) :
        score \in {1, 2}, primary \in Categories,
        secondary \in {Null, "economic_indicators"}}

\* the text of the ranking input at position i: "a" and "b" in turn
RankText(i) == IF i % 2 = 1 THEN <<"a">> ELSE <<"b">>

\* the timestamp of the ranking input at position i: the day of the pass and a
\* day more than a year before it, in turn
RankDate(i) == IF i % 2 = 1 THEN 0 ELSE -400

\* the collections of at most MaxItems ranking inputs, the id of an item its position
RankCollections ==
    UNION {{[i \in 1..n |-> [c[i] EXCEPT !.id = i, !.title = RankText(i),
                                         !.content = RankText(i),
                                         !.analyst_name = RankText(i),
                                         !.organization = RankText(i),
                                         !.date = RankDate(i)]] :
                c \in [1..n -> RankItems]} : n \in 0..MaxItems}

\* ranking inputs that may lack their score or their primary category
MalformedItems ==
    {Item(0, TextKeys \cup s[1], <<>>, <<>>, <<>>, <<>>, s[2], primary, Null) :
        s \in {<<{}, 0>>} \cup {<<{"priority_score"}, v>> : v \in {1, 2}},
        primary \in {Undefined, "internal_conflict"}}

\* the collections of at most MaxItems such inputs, the id of an item its position
MalformedCollections ==
    UNION {{[i \in 1..n |-> [c[i] EXCEPT !.id = i]] : c \in [1..n -> MalformedItems]} :
              n \in 0..MaxItems}

\* the limits a caller passes
Limits == 0..(MaxItems + 1)

\* the queries of the ranking inputs: none, the one text, the other in upper case
RankQueries == {<<>>, <<"a">>, <<"B">>}

\* a text field that may be missing: <<the keys it adds, its value>>
OptionalText(k, values) == {<<{}, <<>>>>} \cup {<<{k}, v>> : v \in values}

\* search inputs, articles: a title and a content, either of which may be missing
ArticleItems ==
    {Item(1, t[1] \cup c[1] \cup {"priority_score"}, t[2], c[2], <<>>, <<>>,
          1, "internal_conflict", Null) :
        t \in OptionalText("title", Strings(MaxTextLen)),
        c \in OptionalText("content", Strings(MaxTextLen))}

\* search inputs, analyst entries: content, analyst name and organization, any
\* of which may be missing, and no title
AnalystItems ==
    {Item(1, c[1] \cup n[1] \cup o[1] \cup {"priority_score"},
          <<>>, c[2], n[2], o[2], 1, "internal_conflict", Undefined) :
        c \in OptionalText("content", Strings(MaxTextLen)),
        n \in OptionalText("analyst_name", Strings(1)),
        o \in OptionalText("organization", Strings(1))}

----------------------------------------------------------------------------
(* The feed panels *)

\* Dashboard and SearchFilter as first rendered
ShellMounted ==
    /\ filters = InitialFilters
    /\ tabValue = 0
    /\ searchFilter = InitialSearchFilter
    /\ onFilterChange = [id |-> 0, filters |-> InitialFilters]
    /\ dashboardStale = FALSE
    /\ updates = 0

\* Dashboard renders AnalystQuotes and NewsFeed (in this order on the Overview
\* tab); each starts with an empty list and its effect is scheduled
FeedMount(as, qs, f, n) ==
    /\ mockArticles = as
    /\ mockAnalystCommentary = qs
    /\ mockAnalystQuotes = qs
    /\ panelFilters = f
    /\ limit = n
    /\ articles = <<>>
    /\ quotes = <<>>
    /\ effects = <<"AnalystQuotes", "NewsFeed">>
    /\ crashed = FALSE
    /\ mockTimeSeriesData = TimeSeries(0)
    /\ timeSeriesData = {}
    /\ priorityScoreData = {}
    /\ mockHotspots = <<>>
    /\ hotspots = <<>>
    /\ ShellMounted

\* the same collection in every array, every category, limit and ranking query
RankInit ==
    \E c \in RankCollections, cat \in CategoryOptions, q \in RankQueries, n \in Limits :
        FeedMount(c, c, Criteria(cat, q, Undefined), n)

\* one article or one analyst entry, every query, both data types
SearchInit ==
    \E q \in Strings(MaxTextLen), d \in {Undefined, "analyst"} :
        \/ \E a \in ArticleItems : FeedMount(<<a>>, <<>>, Criteria("all", q, d), MaxItems)
        \/ \E e \in AnalystItems : FeedMount(<<>>, <<e>>, Criteria("all", q, d), MaxItems)

\* items that lack a score or a category, under 'all' and under one category,
\* no query, every limit
MalformedInit ==
    \E c \in MalformedCollections, cat \in {"all", "internal_conflict"}, n \in Limits :
        FeedMount(c, c, Criteria(cat, <<>>, Undefined), n)

FeedInit == RankInit \/ SearchInit \/ MalformedInit

\* AnalystQuotes: useEffect(() => {...}, [filters, limit])
AnalystQuotesEffect ==
    /\ ~crashed
    /\ effects # <<>> /\ Head(effects) = "AnalystQuotes"
    /\ IF AnalystQuotesThrows(panelFilters)
       THEN /\ crashed' = TRUE
            /\ effects' = <<>>
            /\ UNCHANGED <<quotes, mockAnalystQuotes>>
       ELSE /\ \E sorted \in SortByPriority(
                               AnalystQuotesFiltered(panelFilters, mockAnalystQuotes)) :
                   /\ quotes' = Slice0(sorted, limit)
                   /\ mockAnalystQuotes' =
                          IF AnalystQuotesSortedArray(panelFilters) = "mockAnalystQuotes"
                          THEN sorted ELSE mockAnalystQuotes
            /\ effects' = Tail(effects)
            /\ UNCHANGED crashed
    /\ UNCHANGED <<mockArticles, mockAnalystCommentary,
                   panelFilters, limit, articles, chartVars, mapVars, uiVars>>

\* NewsFeed: useEffect(() => {...}, [filters, limit])
NewsFeedEffect ==
    /\ ~crashed
    /\ effects # <<>> /\ Head(effects) = "NewsFeed"
    /\ \E sorted \in SortByPriority(
                       NewsFeedFiltered(panelFilters, NewsFeedSource(panelFilters))) :
           /\ articles' = Slice0(sorted, limit)
           /\ mockArticles' =
                  IF NewsFeedSortedArray(panelFilters) = "mockArticles"
                  THEN sorted ELSE mockArticles
           /\ mockAnalystCommentary' =
                  IF NewsFeedSortedArray(panelFilters) = "mockAnalystCommentary"
                  THEN sorted ELSE mockAnalystCommentary
    /\ effects' = Tail(effects)
    /\ UNCHANGED <<mockAnalystQuotes,
                   panelFilters, limit, quotes, crashed, chartVars, mapVars, uiVars>>

FeedNext == AnalystQuotesEffect \/ NewsFeedEffect

SpecFeed == FeedInit /\ [][FeedNext]_vars

----------------------------------------------------------------------------
(* The chart panel *)

\* Dashboard renders ConflictCharts over a series of some length; both charts
\* start as null and the effect is scheduled
ChartsInit ==
    \E n \in 0..MaxSeriesLen, f \in ChartCriteria :
        /\ mockTimeSeriesData = TimeSeries(n)
        /\ timeSeriesData = {}
        /\ priorityScoreData = {}
        /\ mockHotspots = <<>>
        /\ hotspots = <<>>
        /\ panelFilters = f
        /\ effects = <<"ConflictCharts">>
        /\ crashed = FALSE
        /\ mockArticles = <<>>
        /\ mockAnalystCommentary = <<>>
        /\ mockAnalystQuotes = <<>>
        /\ limit = 0
        /\ articles = <<>>
        /\ quotes = <<>>
        /\ ShellMounted

\* ConflictCharts: useEffect(() => {...}, [filters])
ConflictChartsEffect ==
    /\ ~crashed
    /\ effects # <<>> /\ Head(effects) = "ConflictCharts"
    /\ timeSeriesData' = {TimeSeriesChartData(panelFilters)}
    /\ priorityScoreData' = {PriorityScoreChartData(panelFilters)}
    /\ effects' = Tail(effects)
    /\ UNCHANGED <<mockArticles, mockAnalystCommentary, mockAnalystQuotes,
                   panelFilters, limit, articles, quotes, crashed, mockTimeSeriesData,
                   mapVars, uiVars>>

ChartsNext == ConflictChartsEffect

SpecCharts == ChartsInit /\ [][ChartsNext]_vars

----------------------------------------------------------------------------
(* The map panel *)

\* the places of the hotspots, as <<east, north>> of a reference coordinate:
\* at it, under the threshold, at the threshold on an axis and off it, beyond
Displacements == {<<0, 0>>, <<49, 0>>, <<0, -50>>, <<30, 40>>, <<36, 35>>, <<51, 0>>}

\* the hotspots: around the reference coordinates of two regions, of two categories
Hotspots ==
    {[coordinates |-> <<regionCoordinates[r][1] + d[1], regionCoordinates[r][2] + d[2]>>,
      category |-> c] :
        r \in {"us", "europe"}, d \in Displacements,
        c \in {"internal_conflict", "external_conflict"}}

\* the criteria GeographicMap is rendered with: every category and region
MapCriteria ==
    {[Criteria(c, <<>>, Undefined) EXCEPT !.region = r] :
        c \in CategoryOptions, r \in RegionOptions}

\* Dashboard renders GeographicMap over two hotspots; it starts with an empty
\* list and its effect is scheduled
MapInit ==
    \E h1 \in Hotspots, h2 \in Hotspots, f \in MapCriteria :
        /\ mockHotspots = <<h1, h2>>
        /\ hotspots = <<>>
        /\ panelFilters = f
        /\ effects = <<"GeographicMap">>
        /\ crashed = FALSE
        /\ mockArticles = <<>>
        /\ mockAnalystCommentary = <<>>
        /\ mockAnalystQuotes = <<>>
        /\ limit = 0
        /\ articles = <<>>
        /\ quotes = <<>>
        /\ mockTimeSeriesData = TimeSeries(0)
        /\ timeSeriesData = {}
        /\ priorityScoreData = {}
        /\ ShellMounted

\* GeographicMap: useEffect(() => {...}, [filters])
GeographicMapEffect ==
    /\ ~crashed
    /\ effects # <<>> /\ Head(effects) = "GeographicMap"
    /\ hotspots' = GeographicMapPass(panelFilters)
    /\ effects' = Tail(effects)
    /\ UNCHANGED <<mockArticles, mockAnalystCommentary, mockAnalystQuotes,
                   panelFilters, limit, articles, quotes, crashed, chartVars,
                   mockHotspots, uiVars>>

MapNext == GeographicMapEffect

SpecMap == MapInit /\ [][MapNext]_vars

----------------------------------------------------------------------------
(* The Overview tab: the four panels over the data the repository ships *)

\* an item of the shipped data: its scores in tenths, its texts not spelled out
\* ("a" and "b" in turn)
MockItem(id, keys, score, primary, secondary) ==
    Item(id, keys \cup {"priority_score"},
         IF "title" \in keys THEN RankText(id) ELSE <<>>,
         IF "content" \in keys THEN RankText(id) ELSE <<>>,
         IF "analyst_name" \in keys THEN RankText(id) ELSE <<>>,
         IF "organization" \in keys THEN RankText(id) ELSE <<>>,
         score, primary, secondary)

\* mockArticles of NewsFeed.js
ShippedArticles ==
    <<MockItem(1, {"title", "content"}, 855, "external_conflict", "economic_indicators"),
      MockItem(2, {"title", "content"}, 782, "internal_conflict", Null),
      MockItem(3, {"title", "content"}, 728, "economic_indicators", Null),
      MockItem(4, {"title", "content"}, 685, "external_conflict", Null),
      MockItem(5, {"title", "content"}, 653, "internal_conflict", Null)>>

\* mockAnalystCommentary of NewsFeed.js
ShippedCommentary ==
    <<MockItem(1, {"content", "analyst_name", "organization"}, 902,
               "external_conflict", Undefined),
      MockItem(2, {"content", "analyst_name", "organization"}, 875,
               "economic_indicators", Undefined),
      MockItem(3, {"content", "analyst_name", "organization"}, 821,
               "internal_conflict", Undefined)>>

\* mockAnalystQuotes of AnalystQuotes: the three above and four more
ShippedQuotes ==
    ShippedCommentary
    \o <<MockItem(4, {"content", "analyst_name", "organization"}, 887,
                  "economic_indicators", Undefined),
         MockItem(5, {"content", "analyst_name", "organization"}, 853,
                  "external_conflict", Undefined),
         MockItem(6, {"content", "analyst_name", "organization"}, 798,
                  "internal_conflict", Undefined),
         MockItem(7, {"content", "analyst_name", "organization"}, 864,
                  "economic_indicators", Undefined)>>

\* mockHotspots of GeographicMap, the coordinates in whole degrees
ShippedHotspots ==
    <<[coordinates |-> <<31, 48>>, category |-> "external_conflict"],
      [coordinates |-> <<121, 24>>, category |-> "external_conflict"],
      [coordinates |-> <<34, 31>>, category |-> "external_conflict"],
      [coordinates |-> <<39, 13>>, category |-> "internal_conflict"],
      [coordinates |-> <<96, 22>>, category |-> "internal_conflict"],
      [coordinates |-> <<-106, 32>>, category |-> "external_conflict"],
      [coordinates |-> <<114, 16>>, category |-> "external_conflict"],
      [coordinates |-> <<-67, 6>>, category |-> "internal_conflict"],
      [coordinates |-> <<51, 26>>, category |-> "external_conflict"],
      [coordinates |-> <<127, 38>>, category |-> "external_conflict"],
      [coordinates |-> <<2, 49>>, category |-> "internal_conflict"],
      [coordinates |-> <<-99, 40>>, category |-> "internal_conflict"]>>

\* the criteria the Overview panels are rendered with: every category, two
\* date ranges, two regions
OverviewCriteria ==
    {[Criteria(c, <<>>, Undefined) EXCEPT !.dateRange = r, !.region = g] :
        c \in CategoryOptions, r \in {"1d", "7d"}, g \in {"global", "us"}}

\* a render that leaves the effect of NewsFeed out, as one whose dependency
\* array lacks filters would
OverviewEffectsWithoutNewsFeed == <<"ConflictCharts", "AnalystQuotes", "GeographicMap">>

\* the effects a render of the Overview tab with a new filters object
\* schedules: every panel has filters as a dependency; they run in tree order
OverviewEffects == <<"ConflictCharts", "AnalystQuotes", "NewsFeed", "GeographicMap">>

\* the Overview tab is first rendered with the initial filters: the lists are
\* empty, the charts null, and every effect is scheduled.  The limit is that
\* of AnalystQuotes; the limit of NewsFeed is above the number of articles
OverviewInit ==
    /\ mockArticles = ShippedArticles
    /\ mockAnalystCommentary = ShippedCommentary
    /\ mockAnalystQuotes = ShippedQuotes
    /\ mockHotspots = ShippedHotspots
    /\ mockTimeSeriesData = TimeSeries(32)
    /\ panelFilters = InitialFilters
    /\ limit = 5
    /\ articles = <<>>
    /\ quotes = <<>>
    /\ hotspots = <<>>
    /\ timeSeriesData = {}
    /\ priorityScoreData = {}
    /\ effects = OverviewEffects
    /\ crashed = FALSE
    /\ ShellMounted

\* Dashboard renders the tab with other filters, once the effects of the
\* render before have run
OverviewRender(f) ==
    /\ ~crashed
    /\ effects = <<>>
    /\ panelFilters' = f
    /\ effects' = OverviewEffects
    /\ UNCHANGED <<mockArticles, mockAnalystCommentary, mockAnalystQuotes, limit,
                   articles, quotes, crashed, chartVars, mapVars, uiVars>>

OverviewNext ==
    \/ \E f \in OverviewCriteria : OverviewRender(f)
    \/ ConflictChartsEffect
    \/ AnalystQuotesEffect
    \/ NewsFeedEffect
    \/ GeographicMapEffect

SpecOverview == OverviewInit /\ [][OverviewNext]_vars

----------------------------------------------------------------------------
(* The shell: Dashboard with its SearchFilter *)

\* the selections made in this model, from the menus of SearchFilter
CategoryChoices == {"all", "internal_conflict"}

DateRangeChoices == {"7d", "custom"}

RegionChoices == {"global", "us"}

\* the texts typed into the search field
TypedQueries == {<<>>, <<"a">>}

\* the tabs selected: Overview, Internal Conflict, External Conflict, Economic
\* Indicators and Analyst Insights
TabChoices == 0..4

\* the panels hold no data here and are not rendered
PanelsIdle ==
    /\ mockArticles = <<>>
    /\ mockAnalystCommentary = <<>>
    /\ mockAnalystQuotes = <<>>
    /\ panelFilters = InitialFilters
    /\ limit = 0
    /\ articles = <<>>
    /\ quotes = <<>>
    /\ crashed = FALSE
    /\ mockTimeSeriesData = TimeSeries(0)
    /\ timeSeriesData = {}
    /\ priorityScoreData = {}
    /\ mockHotspots = <<>>
    /\ hotspots = <<>>

panelVars == <<mockArticles, mockAnalystCommentary, mockAnalystQuotes, panelFilters,
               limit, articles, quotes, crashed, chartVars, mapVars>>

\* Dashboard and SearchFilter are mounted; the effect of SearchFilter is
\* scheduled, as every effect is after the first render
ShellInit ==
    /\ ShellMounted
    /\ PanelsIdle
    /\ effects = <<"SearchFilter">>

\* SearchFilter renders with new state: its effect is scheduled when one of
\* category, dateRange, region differs from the last render (onFilterChange
\* is still the one of the last Dashboard render)
SearchFilterRender(sf) ==
    /\ searchFilter' = sf
    /\ effects' = IF <<sf.category, sf.dateRange, sf.region>>
                        # <<searchFilter.category, searchFilter.dateRange,
                             searchFilter.region>>
                  THEN <<"SearchFilter">>
                  ELSE effects

\* a user event is handled when no effect is waiting to run
Idle == ~crashed /\ effects = <<>>

\* Category: onChange={(e) => setCategory(e.target.value)}
SelectCategory(c) ==
    /\ Idle
    /\ c # searchFilter.category
    /\ SearchFilterRender([searchFilter EXCEPT !.category = c])
    /\ updates' = 0
    /\ UNCHANGED <<filters, tabValue, onFilterChange, dashboardStale, panelVars>>

\* Time Period: handleDateRangeChange
HandleDateRangeChange(value) ==
    /\ Idle
    /\ value # searchFilter.dateRange
    /\ SearchFilterRender([searchFilter EXCEPT !.dateRange = value,
                                               !.showCustomDates = (value = "custom")])
    /\ updates' = 0
    /\ UNCHANGED <<filters, tabValue, onFilterChange, dashboardStale, panelVars>>

\* Region: onChange={(e) => setRegion(e.target.value)}
SelectRegion(r) ==
    /\ Idle
    /\ r # searchFilter.region
    /\ SearchFilterRender([searchFilter EXCEPT !.region = r])
    /\ updates' = 0
    /\ UNCHANGED <<filters, tabValue, onFilterChange, dashboardStale, panelVars>>

\* Search Keywords: onChange={(e) => setSearchQuery(e.target.value)}
TypeSearchQuery(text) ==
    /\ Idle
    /\ text # searchFilter.searchQuery
    /\ SearchFilterRender([searchFilter EXCEPT !.searchQuery = text])
    /\ UNCHANGED <<filters, tabValue, onFilterChange, dashboardStale, updates, panelVars>>

\* Start Date: onChange={setStartDate}, shown while showCustomDates
PickStartDate(d) ==
    /\ Idle
    /\ searchFilter.showCustomDates
    /\ {d} # searchFilter.startDate
    /\ SearchFilterRender([searchFilter EXCEPT !.startDate = {d}])
    /\ UNCHANGED <<filters, tabValue, onFilterChange, dashboardStale, updates, panelVars>>

\* End Date: onChange={setEndDate}, shown while showCustomDates
PickEndDate(d) ==
    /\ Idle
    /\ searchFilter.showCustomDates
    /\ {d} # searchFilter.endDate
    /\ SearchFilterRender([searchFilter EXCEPT !.endDate = {d}])
    /\ UNCHANGED <<filters, tabValue, onFilterChange, dashboardStale, updates, panelVars>>

\* the Search button and the Enter key: handleSearch
HandleSearch ==
    /\ Idle
    /\ HandleFilterChange(onFilterChange, SearchFilterFilters(searchFilter))
    /\ updates' = 1
    /\ UNCHANGED <<tabValue, searchFilter, onFilterChange, effects, panelVars>>

\* Tabs: handleTabChange
HandleTabChange(newValue) ==
    /\ Idle
    /\ newValue # tabValue
    /\ tabValue' = newValue
    /\ dashboardStale' = TRUE
    /\ UNCHANGED <<filters, searchFilter, onFilterChange, effects, updates, panelVars>>

\* SearchFilter: useEffect(() => {...}, [category, dateRange, region, onFilterChange])
SearchFilterEffect ==
    /\ ~crashed
    /\ effects # <<>> /\ Head(effects) = "SearchFilter"
    /\ HandleFilterChange(onFilterChange, SearchFilterFilters(searchFilter))
    /\ effects' = Tail(effects)
    /\ updates' = Min(updates + 1, MaxUpdates)
    /\ UNCHANGED <<tabValue, searchFilter, onFilterChange, panelVars>>

\* React renders Dashboard after a state update: the render makes a new
\* handleFilterChange, closed over the filters of this render, and passes it to
\* SearchFilter, whose effect is scheduled because this dependency changed
DashboardRender ==
    /\ Idle
    /\ dashboardStale
    /\ onFilterChange' = [id |-> 1 - onFilterChange.id, filters |-> filters]
    /\ dashboardStale' = FALSE
    /\ effects' = <<"SearchFilter">>
    /\ UNCHANGED <<filters, tabValue, searchFilter, updates, panelVars>>

ShellNext ==
    \/ \E c \in CategoryChoices : SelectCategory(c)
    \/ \E value \in DateRangeChoices : HandleDateRangeChange(value)
    \/ \E r \in RegionChoices : SelectRegion(r)
    \/ \E text \in TypedQueries : TypeSearchQuery(text)
    \/ \E d \in PickerDates : PickStartDate(d)
    \/ \E d \in PickerDates : PickEndDate(d)
    \/ HandleSearch
    \/ \E newValue \in TabChoices : HandleTabChange(newValue)
    \/ SearchFilterEffect
    \/ DashboardRender

SpecShell == ShellInit /\ [][ShellNext]_vars

----------------------------------------------------------------------------
(* Properties of the feed panels *)

\* the effect of NewsFeed has run for the props of the last render
NewsFeedRan == ~crashed /\ effects = <<>>

\* the effect of AnalystQuotes has run for the props of the last render
AnalystQuotesRan == ~crashed /\ (effects = <<>> \/ effects = <<"NewsFeed">>)

\* the ids of the items of a list
Ids(s) == {s[i].id : i \in 1..Len(s)}

\* text contains q, letter case ignored
ContainsIgnoringCase(text, q) ==
    \E i \in 0..(Len(text) - Len(q)) :
        \A k \in 1..Len(q) : LowerChar(text[i + k]) = LowerChar(q[k])

\* the candidates of NewsFeed that pass its category and search filters
NewsFeedMatching ==
    NewsFeedFiltered(panelFilters, NewsFeedSource(panelFilters))

\* the candidates of AnalystQuotes that pass its category and search filters
AnalystQuotesMatching ==
    AnalystQuotesFiltered(panelFilters, mockAnalystQuotes)

\* C1: in NewsFeed's filter pass an item survives the category step exactly when
\* the category is 'all' or equals its primary or its secondary category; no
\* returned item fails that test, and with no query and no truncation the
\* returned items are exactly the candidates that pass it
C1_CategoryUnionMatch ==
    NewsFeedRan =>
        LET c == panelFilters.category
            src == NewsFeedSource(panelFilters)
            union == {item \in Range(src) :
                         c = "all" \/ item.primary_category = c
                                  \/ item.secondary_category = c}
        IN /\ Range(NewsFeedCategoryFilter(panelFilters, src)) = union
           /\ Range(articles) \subseteq union
           /\ (panelFilters.searchQuery = <<>> /\ limit >= Len(src))
                  => Range(articles) = union

\* an item with primary external_conflict and secondary economic_indicators is
\* returned under category economic_indicators
C1_Witness ==
    /\ NewsFeedRan
    /\ panelFilters.category = "economic_indicators"
    /\ \E i \in 1..Len(articles) :
           /\ articles[i].primary_category = "external_conflict"
           /\ articles[i].secondary_category = "economic_indicators"

\* C2 as claimed: with the same query and the same limit, the list returned for
\* category 'all' contains every item returned for any one category
C2_AllIsSuperset ==
    /\ (NewsFeedRan /\ panelFilters.category = "all") =>
           \A c \in Categories :
               \A r \in NewsFeedPass([panelFilters EXCEPT !.category = c], limit) :
                   Ids(r) \subseteq Ids(articles)
    /\ (AnalystQuotesRan /\ panelFilters.category = "all") =>
           \A c \in Categories :
               \A r \in AnalystQuotesPass([panelFilters EXCEPT !.category = c], limit) :
                   Ids(r) \subseteq Ids(quotes)

\* C2 amended: the same, when the limit does not cut the list of 'all', that is
\* when the limit is at least the number of candidates that pass the query
C2_AllIsSupersetUncut ==
    /\ (NewsFeedRan /\ panelFilters.category = "all" /\ Len(NewsFeedMatching) <= limit) =>
           \A c \in Categories :
               \A r \in NewsFeedPass([panelFilters EXCEPT !.category = c], limit) :
                   Ids(r) \subseteq Ids(articles)
    /\ (AnalystQuotesRan /\ panelFilters.category = "all"
            /\ Len(AnalystQuotesMatching) <= limit) =>
           \A c \in Categories :
               \A r \in AnalystQuotesPass([panelFilters EXCEPT !.category = c], limit) :
                   Ids(r) \subseteq Ids(quotes)

\* 'all' returned two items uncut and some category returns only one of them
C2_Witness ==
    /\ NewsFeedRan
    /\ panelFilters.category = "all"
    /\ Len(articles) = 2 /\ limit >= 2
    /\ \E c \in Categories :
           \E r \in NewsFeedPass([panelFilters EXCEPT !.category = c], limit) : Len(r) = 1

\* C4: the returned list is no longer than the limit, and its length is the
\* smaller of the limit and the number of candidates that pass the category and
\* search filters
C4_LimitRespected ==
    /\ NewsFeedRan =>
           /\ Len(articles) <= limit
           /\ Len(articles) = Min(limit, Len(NewsFeedMatching))
    /\ AnalystQuotesRan =>
           /\ Len(quotes) <= limit
           /\ Len(quotes) = Min(limit, Len(AnalystQuotesMatching))

\* both lists were cut: more candidates matched than the limit lets through
C4_Witness ==
    /\ NewsFeedRan
    /\ limit > 0
    /\ Len(articles) = limit /\ Len(NewsFeedMatching) > limit
    /\ Len(quotes) = limit /\ Len(AnalystQuotesMatching) > limit

\* the list is in non-increasing score order, holds the highest-scored of the
\* matching items, and keeps equal scores in candidate order (ids are positions)
RankedTopOf(list, matching) ==
    /\ \A i, j \in 1..Len(list) :
           i < j => /\ list[i].priority_score >= list[j].priority_score
                    /\ list[i].priority_score = list[j].priority_score
                           => list[i].id < list[j].id
    /\ Range(list) \subseteq Range(matching)
    /\ \A a \in Range(list) : \A m \in Range(matching) \ Range(list) :
           \/ m.priority_score < a.priority_score
           \/ m.priority_score = a.priority_score /\ m.id > a.id

\* every item of the list has a score
AllScored(list) == \A item \in Range(list) : Has(item, "priority_score")

\* the candidates of the example: id 1 external_conflict with the higher score,
\* id 2 internal_conflict with the lower
C5_Example ==
    /\ Len(mockArticles) = 2
    /\ mockArticles[1].primary_category = "external_conflict"
    /\ mockArticles[1].priority_score > mockArticles[2].priority_score
    /\ mockArticles[2].primary_category = "internal_conflict"
    /\ mockArticles[2].secondary_category = Null
    /\ panelFilters.searchQuery = <<>>
    /\ limit >= 2

\* C5: over candidates that all have a score, the returned list is ranked by
\* descending score before it is cut, ties in candidate order; the example yields [1, 2] under 'all' and [2] under
\* internal_conflict
C5_RankedStableTopN ==
    /\ (NewsFeedRan /\ AllScored(NewsFeedMatching)) =>
           /\ RankedTopOf(articles, NewsFeedMatching)
           /\ (C5_Example /\ panelFilters.category = "all")
                  => [i \in 1..Len(articles) |-> articles[i].id] = <<1, 2>>
           /\ (C5_Example /\ panelFilters.category = "internal_conflict")
                  => [i \in 1..Len(articles) |-> articles[i].id] = <<2>>
    /\ (AnalystQuotesRan /\ AllScored(AnalystQuotesMatching))
           => RankedTopOf(quotes, AnalystQuotesMatching)

\* in both lists the second candidate outranked the first
C5_Witness ==
    /\ NewsFeedRan
    /\ Len(articles) = 2 /\ articles[1].id = 2
    /\ Len(quotes) = 2 /\ quotes[1].id = 2

\* C6 as claimed: an item whose title does not contain the query is not
\* retained, whatever its content
C6_TitleOnlyWhenPresent ==
    (NewsFeedRan /\ panelFilters.searchQuery # <<>>) =>
        \A item \in Range(NewsFeedSource(panelFilters)) :
            (Has(item, "title")
                /\ ~ContainsIgnoringCase(item.title, panelFilters.searchQuery))
                => item \notin Range(articles)

\* C6 amended: with a non-empty query an item is retained exactly when its
\* title, if it has one, or its content, if it has one, contains the query
C6_TitleOrContent ==
    (NewsFeedRan /\ panelFilters.searchQuery # <<>>) =>
        \A item \in Range(NewsFeedCategoryFilter(panelFilters, NewsFeedSource(panelFilters))) :
            LET hit == \/ /\ Has(item, "title")
                          /\ ContainsIgnoringCase(item.title, panelFilters.searchQuery)
                       \/ /\ Has(item, "content")
                          /\ ContainsIgnoringCase(item.content, panelFilters.searchQuery)
            IN /\ item \in Range(NewsFeedSearchFilter(panelFilters, <<item>>)) <=> hit
               /\ item \in Range(articles) => hit
               /\ (hit /\ Len(NewsFeedMatching) <= limit) => item \in Range(articles)

\* an item is retained on its content although its title lacks the query
C6_Witness ==
    /\ NewsFeedRan
    /\ panelFilters.searchQuery # <<>>
    /\ \E item \in Range(articles) :
           /\ Has(item, "title")
           /\ ~ContainsIgnoringCase(item.title, panelFilters.searchQuery)
           /\ Has(item, "content")
           /\ ContainsIgnoringCase(item.content, panelFilters.searchQuery)

\* C7 as claimed: for a non-empty query, NewsFeed with dataType 'analyst' and
\* AnalystQuotes retain the same analyst entries (the two hold the same entries)
C7_AnalystSearchAgrees ==
    (NewsFeedRan /\ panelFilters.dataType = "analyst" /\ panelFilters.searchQuery # <<>>
        /\ mockAnalystCommentary = mockAnalystQuotes
        /\ panelFilters.category = "all" /\ limit >= Len(mockAnalystQuotes)) =>
        \A entry \in Range(mockAnalystQuotes) :
            entry \in Range(articles) <=> entry \in Range(quotes)

\* the days a relative date range reaches back from the day of the pass
WindowDays(dateRange) ==
    IF dateRange = "1d" THEN 1
    ELSE IF dateRange = "7d" THEN 7
    ELSE IF dateRange = "30d" THEN 30
    ELSE IF dateRange = "90d" THEN 90
    ELSE 365

\* the timestamp lies in the window the criteria select
InDateWindow(date, criteria) ==
    IF criteria.dateRange = "custom"
    THEN \A from \in criteria.startDate, to \in criteria.endDate :
             from <= date /\ date <= to
    ELSE 0 - date <= WindowDays(criteria.dateRange)

\* C11 as claimed: every item NewsFeed or AnalystQuotes returns has its
\* timestamp inside the window of the selected date range; an item outside the
\* window is never returned
C11_OnlyItemsInWindow ==
    /\ NewsFeedRan => \A item \in Range(articles) : InDateWindow(item.date, panelFilters)
    /\ AnalystQuotesRan => \A quote \in Range(quotes) : InDateWindow(quote.date, panelFilters)

\* C22: over candidates that all have a score and with a limit of at least the
\* number of candidates, the pass of NewsFeed applied to the list it returned,
\* same criteria and limit, returns that list again, and so does the pass of
\* AnalystQuotes
C22_PassIdempotent ==
    /\ (NewsFeedRan /\ limit >= Len(NewsFeedSource(panelFilters))
            /\ AllScored(NewsFeedMatching))
           => NewsFeedApply(panelFilters, articles, limit) = {articles}
    /\ (AnalystQuotesRan /\ limit >= Len(mockAnalystQuotes)
            /\ AllScored(AnalystQuotesMatching))
           => AnalystQuotesApply(panelFilters, quotes, limit) = {quotes}

\* uncut and under one category, the first pass returned both candidates, of
\* equal score, in both lists
C22_Witness ==
    /\ NewsFeedRan
    /\ limit >= Len(mockArticles) /\ Len(mockArticles) = 2
    /\ Len(articles) = 2 /\ Len(quotes) = 2
    /\ articles[1].priority_score = articles[2].priority_score
    /\ panelFilters.category # "all"

\* the queries that differ from q in letter case only
CaseVariants(q) ==
    {v \in [1..Len(q) -> Chars] : \A i \in 1..Len(q) : LowerChar(v[i]) = LowerChar(q[i])}

\* C23: with a non-empty query an item whose title contains the query, letter
\* case ignored, passes the search step of NewsFeed and is returned unless the
\* limit cuts it; the pass returns the same for every letter-case variant of
\* the query; with the empty query the search step removes nothing
C23_CaseInsensitiveSubstring ==
    NewsFeedRan =>
        LET q == panelFilters.searchQuery
            data == NewsFeedCategoryFilter(panelFilters, NewsFeedSource(panelFilters))
        IN /\ q # <<>> =>
                  \A item \in Range(data) :
                      (Has(item, "title") /\ ContainsIgnoringCase(item.title, q)) =>
                          /\ item \in Range(NewsFeedSearchFilter(panelFilters, data))
                          /\ Len(NewsFeedMatching) <= limit => item \in Range(articles)
           /\ \A v \in CaseVariants(q) :
                  NewsFeedPass([panelFilters EXCEPT !.searchQuery = v], limit)
                      = NewsFeedPass(panelFilters, limit)
           /\ q = <<>> => NewsFeedSearchFilter(panelFilters, data) = data

\* the query "a" retained an item on its title "Ab", its content lacking "a"
C23_Witness ==
    /\ NewsFeedRan
    /\ panelFilters.searchQuery = <<"a">>
    /\ \E item \in Range(articles) :
           /\ Has(item, "title") /\ item.title = <<"A", "b">>
           /\ ~Has(item, "content")

\* C24 as claimed: under a category other than 'all', with no query and no
\* cut, AnalystQuotes returns every quote whose secondary category is the
\* selected one, whatever its primary category
C24_QuotesUnionMatch ==
    (AnalystQuotesRan /\ panelFilters.category \in Categories
        /\ panelFilters.searchQuery = <<>> /\ limit >= Len(mockAnalystQuotes)) =>
        \A quote \in Range(mockAnalystQuotes) :
            quote.secondary_category = panelFilters.category => quote \in Range(quotes)

\* C16 as claimed: no filter pass throws because of a missing field, so no
\* effect of NewsFeed or AnalystQuotes ever leaves the tree unmounted by an
\* exception
C16_NoPassThrows == ~crashed

\* in the list no item without a score stands before an item with a positive
\* score, and the items with scores are in non-increasing score order
MissingScoreLast(list) ==
    \A i, j \in 1..Len(list) :
        i < j =>
            /\ ~(/\ ~Has(list[i], "priority_score")
                 /\ Has(list[j], "priority_score") /\ list[j].priority_score > 0)
            /\ (Has(list[i], "priority_score") /\ Has(list[j], "priority_score"))
                   => list[i].priority_score >= list[j].priority_score

\* C17 as claimed: an item without a score is ranked as if its score were 0,
\* behind every returned item with a positive score, and the scored items stay
\* in non-increasing order
C17_MissingScoreSortsLast ==
    /\ NewsFeedRan => MissingScoreLast(articles)
    /\ AnalystQuotesRan => MissingScoreLast(quotes)

\* the well-formed candidates of a list: those with a primary category
WellFormed(list) == {item \in Range(list) : item.primary_category # Undefined}

\* C18 as claimed: an item without primary_category is never in the returned
\* list, and the well-formed items that pass the filters are returned as far
\* as the limit allows
C18_MalformedDropped ==
    /\ NewsFeedRan =>
           /\ Range(articles) \subseteq WellFormed(articles)
           /\ Len(NewsFeedMatching) <= limit
                  => WellFormed(NewsFeedMatching) \subseteq Range(articles)
    /\ AnalystQuotesRan =>
           /\ Range(quotes) \subseteq WellFormed(quotes)
           /\ Len(AnalystQuotesMatching) <= limit
                  => WellFormed(AnalystQuotesMatching) \subseteq Range(quotes)

\* C19 as claimed: NewsFeed and AnalystQuotes show their 'no results' message
\* only when their filter pass has run for the current criteria; before the
\* pass has produced a list the message is not shown
C19_NoResultsOnlyAfterPass ==
    /\ (~crashed /\ NewsFeedRender(articles) = "no-results") => NewsFeedRan
    /\ (~crashed /\ AnalystQuotesRender(quotes) = "no-results") => AnalystQuotesRan

----------------------------------------------------------------------------
(* Properties of the chart panel *)

\* the effect of ConflictCharts has run for the props of the last render
ConflictChartsRan == ~crashed /\ effects = <<>> /\ timeSeriesData # {}

\* the dates of the samples the time-series chart shows: a value of TimeSeries
\* at index i is 3 * i, 3 * i + 1 or 3 * i + 2, and the date at index i is i
ShownDates ==
    UNION {UNION {{mockTimeSeriesData.dates[v \div 3] : v \in Range(dataset.data)} :
                     dataset \in Range(chart.datasets)} : chart \in timeSeriesData}

\* the number of samples the time-series chart shows
ShownCount == CHOOSE n \in 0..Len(mockTimeSeriesData.dates) :
                  \A chart \in timeSeriesData : Len(chart.labels) = n

\* the dates of the last n samples of the series, or of all when it has fewer
TrailingDates(n) ==
    LET len == Len(mockTimeSeriesData.dates)
    IN {mockTimeSeriesData.dates[i] : i \in (len - Min(n, len) + 1)..len}

\* C8 as claimed: for 1d, 7d and 30d the time-series chart shows exactly the
\* last min(N, L) samples, N = 1, 7 and 30
C8_TrailingWindow ==
    ConflictChartsRan =>
        \A w \in {<<"1d", 1>>, <<"7d", 7>>, <<"30d", 30>>} :
            panelFilters.dateRange = w[1] =>
                /\ ShownCount = Min(w[2], Len(mockTimeSeriesData.dates))
                /\ ShownDates = TrailingDates(w[2])

\* C9 as claimed: for 90d and 1y the time-series chart shows the last 90 and
\* 365 samples, or all of a shorter series
C9_LongWindows ==
    ConflictChartsRan =>
        \A w \in {<<"90d", 90>>, <<"1y", 365>>} :
            panelFilters.dateRange = w[1] =>
                /\ ShownCount = Min(w[2], Len(mockTimeSeriesData.dates))
                /\ ShownDates = TrailingDates(w[2])

\* C10 as claimed: for a custom range with both dates given, the time-series
\* chart shows only samples dated from startDate to endDate
C10_CustomRange ==
    (ConflictChartsRan /\ panelFilters.dateRange = "custom"
        /\ panelFilters.startDate # {} /\ panelFilters.endDate # {}) =>
        \A d \in ShownDates :
            \A from \in panelFilters.startDate, to \in panelFilters.endDate :
                from <= d /\ d <= to

\* the categories in the fixed order of the charts, with the labels of their series
SeriesOrder ==
    <<[category |-> "internal_conflict", label |-> "Internal Conflict"],
      [category |-> "external_conflict", label |-> "External Conflict"],
      [category |-> "economic_indicators", label |-> "Economic Indicators"]>>

\* the series a chart must show for the selected category: all three in the
\* fixed order, or the one selected
SeriesExpected ==
    FilterSeq(SeriesOrder, {k \in Range(SeriesOrder) :
                               panelFilters.category = "all"
                                   \/ panelFilters.category = k.category})

\* the datasets of the chart are the expected series, one by one and in order,
\* each with the data of its own category out of the given data
ShowsExpectedSeries(chart, data) ==
    /\ Len(chart.datasets) = Len(SeriesExpected)
    /\ \A i \in 1..Len(SeriesExpected) :
           /\ chart.datasets[i].label = SeriesExpected[i].label
           /\ chart.datasets[i].data = data[SeriesExpected[i].category]

\* C20: in both charts the series of a category is present exactly when the
\* selected category is 'all' or that category: three series in the order
\* internal, external, economic for 'all', and the one series of the category
\* for a specific category
C20_SeriesByCategory ==
    ConflictChartsRan =>
        /\ \A chart \in timeSeriesData :
               ShowsExpectedSeries(chart, FilteredTimeSeries(panelFilters, mockTimeSeriesData))
        /\ \A chart \in priorityScoreData :
               ShowsExpectedSeries(chart, mockPriorityScoreData)
        /\ panelFilters.category = "all" => Len(SeriesExpected) = 3
        /\ panelFilters.category \in Categories => Len(SeriesExpected) = 1

\* under 'all' both charts show three series over a series that has samples
C20_Witness ==
    /\ ConflictChartsRan
    /\ panelFilters.category = "all"
    /\ Len(mockTimeSeriesData.dates) > 0
    /\ \E chart \in timeSeriesData : Len(chart.datasets) = 3
    /\ \E chart \in priorityScoreData : Len(chart.datasets) = 3

\* the category of the series with the given label
CategoryOfLabel(label) ==
    (CHOOSE k \in Range(SeriesOrder) : k.label = label).category

\* C29: in the time-series chart the labels and the data of every series have
\* the same length, and both are the same trailing slice of the source arrays:
\* the label at an index is the formatted date, and the value of a series the
\* sample of its category, at the same index of the source
C29_LabelsAlignedWithData ==
    ConflictChartsRan =>
        \A chart \in timeSeriesData :
            LET offset == Len(mockTimeSeriesData.dates) - Len(chart.labels)
            IN /\ offset >= 0
               /\ \A i \in 1..Len(chart.labels) :
                      chart.labels[i] = FormatLabel(mockTimeSeriesData.dates[offset + i])
               /\ \A dataset \in Range(chart.datasets) :
                      /\ Len(dataset.data) = Len(chart.labels)
                      /\ \A i \in 1..Len(dataset.data) :
                             dataset.data[i] =
                                 mockTimeSeriesData[CategoryOfLabel(dataset.label)][offset + i]

\* under 'all' and 7d, over a series longer than the window, the chart shows
\* eight labels and three series
C29_Witness ==
    /\ ConflictChartsRan
    /\ panelFilters.category = "all"
    /\ panelFilters.dateRange = "7d"
    /\ Len(mockTimeSeriesData.dates) > 8
    /\ \E chart \in timeSeriesData :
           Len(chart.labels) = 8 /\ Len(chart.datasets) = 3

\* C30: the priority-score chart depends on the category of the criteria only:
\* it is the chart of any criteria with the same category, whatever their date
\* range, and its labels and series are the whole priority score data, no date
\* window applied
C30_PriorityChartByCategoryOnly ==
    ConflictChartsRan =>
        \A chart \in priorityScoreData :
            /\ \A f \in ChartCriteria :
                   f.category = panelFilters.category => chart = PriorityScoreChartData(f)
            /\ Len(chart.labels) = Len(mockPriorityScoreData.dates)
            /\ \A i \in 1..Len(chart.labels) :
                   chart.labels[i] = FormatLabel(mockPriorityScoreData.dates[i])
            /\ \A dataset \in Range(chart.datasets) :
                   dataset.data = mockPriorityScoreData[CategoryOfLabel(dataset.label)]

\* under 1d the time-series chart is cut to two samples while the priority
\* chart shows all six
C30_Witness ==
    /\ ConflictChartsRan
    /\ panelFilters.dateRange = "1d"
    /\ \E chart \in timeSeriesData : Len(chart.labels) = 2
    /\ \E chart \in priorityScoreData :
           Len(chart.labels) = 6 /\ chart.datasets # <<>>

----------------------------------------------------------------------------
(* Properties of the map panel *)

\* the effect of GeographicMap has run for the props of the last render
GeographicMapRan == ~crashed /\ effects = <<>> /\ mockHotspots # <<>>

\* the square of the Euclidean distance, in degrees, from a hotspot to the
\* reference coordinate of region r
DistanceSquared(hotspot, r) ==
    LET dLong == hotspot.coordinates[1] - regionCoordinates[r][1]
        dLat == hotspot.coordinates[2] - regionCoordinates[r][2]
    IN dLong * dLong + dLat * dLat

\* the candidates the category step lets through, the region step not applied
HotspotsOfCategory ==
    {hotspot \in Range(mockHotspots) :
        panelFilters.category = "all" \/ hotspot.category = panelFilters.category}

\* C15 as claimed: with a region that has a reference coordinate, a hotspot of
\* the selected category is retained exactly when its distance from the
\* reference coordinate is at most 50
C15_WithinAtMostThreshold ==
    (GeographicMapRan /\ panelFilters.region \in DOMAIN regionCoordinates) =>
        \A hotspot \in HotspotsOfCategory :
            hotspot \in Range(hotspots)
                <=> DistanceSquared(hotspot, panelFilters.region) <= 50 * 50

\* C15 amended: with a region that has a reference coordinate, a hotspot of the
\* selected category is retained exactly when its distance from the reference
\* coordinate is less than 50, so one at the reference coordinate is retained
\* and one at distance 50 or more is excluded; with region 'global' the region
\* step excludes nothing
C15_WithinBelowThreshold ==
    GeographicMapRan =>
        /\ panelFilters.region \in DOMAIN regionCoordinates =>
               \A hotspot \in HotspotsOfCategory :
                   /\ hotspot \in Range(hotspots)
                          <=> DistanceSquared(hotspot, panelFilters.region) < 50 * 50
                   /\ hotspot.coordinates = regionCoordinates[panelFilters.region]
                          => hotspot \in Range(hotspots)
                   /\ DistanceSquared(hotspot, panelFilters.region) >= 50 * 50
                          => hotspot \notin Range(hotspots)
        /\ panelFilters.region = "global" => Range(hotspots) = HotspotsOfCategory
        /\ Range(hotspots) \subseteq HotspotsOfCategory

\* under region 'us' the hotspot at the reference coordinate is retained and
\* the hotspot at distance exactly 50 from it is not
C15_Witness ==
    /\ GeographicMapRan
    /\ panelFilters.region = "us" /\ panelFilters.category = "all"
    /\ \E kept \in Range(hotspots) : kept.coordinates = regionCoordinates["us"]
    /\ \E out \in Range(mockHotspots) \ Range(hotspots) :
           DistanceSquared(out, "us") = 50 * 50

----------------------------------------------------------------------------
(* Properties of the Overview tab *)

\* every effect of the last render has run
OverviewSettled == ~crashed /\ effects = <<>>

\* C21: whatever the renders and criteria so far, the candidate collections
\* hold what they held at the start, in the same order, although both feeds
\* sort in place; a pass run again for the same criteria and limit returns the
\* list now displayed
C21_InputsNeverChanged ==
    /\ mockArticles = ShippedArticles
    /\ mockAnalystCommentary = ShippedCommentary
    /\ mockAnalystQuotes = ShippedQuotes
    /\ mockHotspots = ShippedHotspots
    /\ mockTimeSeriesData = TimeSeries(32)
    /\ OverviewSettled =>
           /\ NewsFeedPass(panelFilters, limit) = {articles}
           /\ AnalystQuotesPass(panelFilters, limit) = {quotes}

\* under 'all' with no query AnalystQuotes has sorted its list, the quote with
\* id 4 now second, while the candidates still have the quote with id 2 second
C21_Witness ==
    /\ OverviewSettled
    /\ panelFilters.category = "all" /\ panelFilters.searchQuery = <<>>
    /\ Len(quotes) = 5 /\ quotes[2].id = 4
    /\ mockAnalystQuotes[2].id = 2

\* C26: once the effects of the latest render have run, every panel displays
\* the pass over the latest criteria, and no effect ever writes anything but
\* the result for the criteria of the latest render
C26_LastChangeWins ==
    /\ [](OverviewSettled =>
             /\ articles \in NewsFeedPass(panelFilters, limit)
             /\ quotes \in AnalystQuotesPass(panelFilters, limit)
             /\ hotspots = GeographicMapPass(panelFilters)
             /\ timeSeriesData = {TimeSeriesChartData(panelFilters)}
             /\ priorityScoreData = {PriorityScoreChartData(panelFilters)})
    /\ [][/\ articles' # articles => articles' \in NewsFeedPass(panelFilters', limit)
          /\ quotes' # quotes => quotes' \in AnalystQuotesPass(panelFilters', limit)
          /\ hotspots' # hotspots => hotspots' = GeographicMapPass(panelFilters')
          /\ timeSeriesData' # timeSeriesData
                 => timeSeriesData' = {TimeSeriesChartData(panelFilters')}]_vars

\* after a second render, with another category, date range and region, every
\* panel displays something else than after the first
C26_Witness ==
    /\ OverviewSettled
    /\ panelFilters.category = "internal_conflict"
    /\ panelFilters.dateRange = "1d" /\ panelFilters.region = "us"
    /\ Len(articles) = 2 /\ Len(quotes) = 2 /\ Len(hotspots) = 2
    /\ \E chart \in timeSeriesData : Len(chart.labels) = 2 /\ Len(chart.datasets) = 1

\* the values a colour function is called with: the categories, 'all', null,
\* undefined and a string that is no category
ColorInputs == Categories \cup {"all", Null, Undefined, "other"}

\* the colour the categories are documented to have
CategoryColor(category) ==
    IF category = "internal_conflict" THEN "#f44336"
    ELSE IF category = "external_conflict" THEN "#2196f3"
    ELSE IF category = "economic_indicators" THEN "#4caf50"
    ELSE "#9e9e9e"

\* the categories whose colour the Overview tab displays: those of the
\* articles, quotes and hotspots shown
DisplayedCategories ==
    UNION {{item.primary_category, item.secondary_category} : item \in Range(articles)}
    \cup {quote.primary_category : quote \in Range(quotes)}
    \cup {hotspot.category : hotspot \in Range(hotspots)}

\* C27: getCategoryColor of NewsFeed, getCategoryColor of AnalystQuotes and
\* getMarkerColor of GeographicMap return the same colour for every input, red
\* for internal, blue for external, green for economic and grey for anything
\* else, and the border colour of every series of the time-series chart is the
\* colour of its category
C27_OneColourMapping ==
    /\ \A category \in ColorInputs \cup DisplayedCategories :
           /\ NewsFeedGetCategoryColor(category) = CategoryColor(category)
           /\ AnalystQuotesGetCategoryColor(category) = CategoryColor(category)
           /\ getMarkerColor(category) = CategoryColor(category)
    /\ \A chart \in timeSeriesData :
           \A dataset \in Range(chart.datasets) :
               /\ dataset.color = getMarkerColor(CategoryOfLabel(dataset.label))
               /\ dataset.color = NewsFeedGetCategoryColor(CategoryOfLabel(dataset.label))
               /\ dataset.color = AnalystQuotesGetCategoryColor(CategoryOfLabel(dataset.label))

\* the Overview tab shows, under 'all', items of all three categories, the
\* twelve hotspots (internal and external) and the three series of the chart
C27_Witness ==
    /\ OverviewSettled
    /\ panelFilters.category = "all"
    /\ Categories \subseteq DisplayedCategories
    /\ Len(hotspots) = 12
    /\ {hotspot.category : hotspot \in Range(hotspots)} =
           {"internal_conflict", "external_conflict"}
    /\ articles # <<>> /\ quotes # <<>>
    /\ \E chart \in timeSeriesData : Len(chart.datasets) = 3

----------------------------------------------------------------------------
(* Properties of the shell *)

\* C3 as claimed: a control change is followed by exactly one update of
\* Dashboard's filters and no further one until the next control change, so
\* the setFilters calls since the last control change never exceed one
C3_OneUpdatePerChange == updates <= 1

\* C12 as claimed: whenever the date range of Dashboard's filters is 'custom',
\* the filters carry a start date and an end date
C12_CustomCarriesDates ==
    filters.dateRange = "custom" => (filters.startDate # {} /\ filters.endDate # {})

\* C13 as claimed: the search query of Dashboard's filters changes only in a
\* step of handleSearch, the Search button or the Enter key; no other step,
\* the effect run by a category, time period or region change included,
\* changes it
C13_SearchOnlyOnSubmit ==
    [][filters'.searchQuery # filters.searchQuery => HandleSearch]_vars

\* the four fields of Dashboard's filters are defined, each with a value of its
\* enumeration, the search query a string
FiltersPopulated ==
    /\ filters.category \in CategoryOptions
    /\ filters.dateRange \in DateRangeOptions
    /\ filters.searchQuery \in Seq(Chars)
    /\ filters.region \in RegionOptions

\* C14: Dashboard starts with category 'all', date range '7d', an empty search
\* query and region 'global', and in every state reached from there, whatever
\* handleFilterChange was called with, the four fields are defined with values
\* of their enumerations
C14_FullyPopulated ==
    /\ filters.category = "all" /\ filters.dateRange = "7d"
    /\ filters.searchQuery = <<>> /\ filters.region = "global"
    /\ []FiltersPopulated

\* handleFilterChange has replaced each of the four defaults
C14_Witness ==
    /\ filters.category = "internal_conflict" /\ filters.dateRange = "custom"
    /\ filters.searchQuery = <<"a">> /\ filters.region = "us"
    /\ updates > 0

\* Dashboard's filters carry both dates
FiltersCarryDates == filters.startDate # {} /\ filters.endDate # {}

\* the filters of the last render of Dashboard, which the handleFilterChange
\* handed to SearchFilter is closed over
RenderedFilters == onFilterChange.filters

RenderedCarryDates ==
    RenderedFilters.startDate # {} /\ RenderedFilters.endDate # {}

\* C28: once both dates are in the filters Dashboard has rendered they stay in
\* the filters: every later update keeps a pair, the rendered one when the
\* update brings no dates and the one of SearchFilter when it brings them,
\* whatever date range it sets, and every later render shows a pair; so filters
\* with a date range other than 'custom' can carry the pair
C28_DatesPersist ==
    [][RenderedCarryDates =>
           /\ FiltersCarryDates
           /\ FiltersCarryDates'
           /\ RenderedCarryDates'
           /\ filters' # filters =>
                  /\ filters'.startDate \in {RenderedFilters.startDate, searchFilter.startDate}
                  /\ filters'.endDate \in {RenderedFilters.endDate, searchFilter.endDate}]_vars

\* Dashboard has rendered filters with the date range 7d that carry the two
\* dates of an earlier custom range, while SearchFilter shows 7d
C28_Witness ==
    /\ ~dashboardStale
    /\ filters.dateRange = "7d"
    /\ searchFilter.dateRange = "7d"
    /\ FiltersCarryDates
    /\ RenderedFilters = filters

\* the category of a category tab
TabCategory(tab) ==
    CASE tab = 1 -> "internal_conflict"
      [] tab = 2 -> "external_conflict"
      [] tab = 3 -> "economic_indicators"

\* the fields of the criteria other than the category
OtherFields == {"dateRange", "searchQuery", "region", "startDate", "endDate", "dataType"}

\* C25: once Dashboard has rendered, every panel of a category tab receives
\* criteria with the category of the tab, whatever category is selected, and
\* with the other fields of Dashboard's filters; every panel of Overview and of
\* Analyst Insights receives the category of Dashboard's filters; and neither
\* a change of tab nor a render changes Dashboard's filters
C25_TabOverridesCategory ==
    /\ [](~dashboardStale =>
            \A p \in Range(TabPanels(tabValue, filters)) :
                /\ tabValue \in 1..3 =>
                       /\ p.filters.category = TabCategory(tabValue)
                       /\ \A k \in OtherFields : p.filters[k] = filters[k]
                /\ tabValue \in {0, 4} => p.filters.category = filters.category)
    /\ [][(tabValue' # tabValue \/ (dashboardStale /\ ~dashboardStale'))
              => filters' = filters]_vars

\* Dashboard has rendered a category tab while another category, or 'all', is
\* selected, with a date range and a region that are not the initial ones
C25_Witness ==
    /\ ~dashboardStale
    /\ tabValue \in 1..3
    /\ filters.category # TabCategory(tabValue)
    /\ filters.dateRange = "custom"
    /\ filters.region = "us"

====
